---- MODULE Spec2Model ----
(***************************************************************************)
(* The task store of the Task Manager app: the MainApp component (state,   *)
(* handlers, derived views, persistence effects) and the TaskItem          *)
(* component's callbacks into it (saveEdit, changePriority, the drag       *)
(* responder).  Every handler is one action; React re-renders between two  *)
(* events, so a MainApp handler reads the state of the latest render,      *)
(* while TaskItem's drag responder, created once with useRef, reads the    *)
(* props of the render in which the item was mounted.                      *)
(***************************************************************************)
EXTENDS Integers, Sequences, FiniteSets, TLC

\* ---------------------------------------------------------------- bounds
MaxTasks == 3
MaxTime == 2
MaxPending == 3
MaxTimers == 2
ReorderLen == 4
PercentLen == 201

\* ------------------------------------------------------ program constants
NoDate == -1
NoTask == -1
DragRowHeight == 60

Priorities == {"low", "medium", "high"}
Filters == {"all", "active", "completed"}

\* Strings are sequences of characters, so that trim, toLowerCase and
\* includes are computed and not assumed.
Texts == { <<>>, <<" ">>, <<"a">>, <<" ", "B">> }
Queries == { <<>>, <<"A">>, <<"b">> }
Dates == 0..(MaxTime + 1)
DragDistances == { -150, -90, -30, 30, 150 }

VARIABLES
    tasks,         \* useState([])            the ordered task list
    newTask,       \* useState('')            text of the add input
    modalVisible,  \* useState(false)         delete confirmation shown
    taskToDelete,  \* useState(null)          id awaiting confirmation
    activeFilter,  \* useState('all')
    searchQuery,   \* useState('')
    isDarkMode,    \* useState(true)
    selectedDate,  \* useState(new Date())    date of the add form
    priority,      \* useState('medium')      priority of the add form
    showConfetti,  \* useState(false)
    isLoading,     \* useState(true)
    now,           \* the clock read by Date.now() and new Date()
    timers,        \* pending setTimeout callbacks that hide the confetti
    storage,       \* AsyncStorage: the '@tasks' and '@theme' entries
    pending,       \* AsyncStorage operations issued and not yet settled
    mounted,       \* per displayed task id: the props its drag responder captured
    op             \* the handler that ran last, with its arguments

vars == << tasks, newTask, modalVisible, taskToDelete, activeFilter, searchQuery,
           isDarkMode, selectedDate, priority, showConfetti, isLoading, now,
           timers, storage, pending, mounted, op >>

\* ----------------------------------------------------------- JS helpers
Min(a, b) == IF a < b THEN a ELSE b
Max(a, b) == IF a > b THEN a ELSE b

IsWhiteSpace(c) == c = " "

RECURSIVE TrimStart(_)
TrimStart(s) ==
    IF s = <<>> THEN s
    ELSE IF IsWhiteSpace(Head(s)) THEN TrimStart(Tail(s)) ELSE s

RECURSIVE TrimEnd(_)
TrimEnd(s) ==
    IF s = <<>> THEN s
    ELSE IF IsWhiteSpace(s[Len(s)]) THEN TrimEnd(SubSeq(s, 1, Len(s) - 1)) ELSE s

\* String.prototype.trim
Trim(s) == TrimEnd(TrimStart(s))

\* a JS string is truthy when it is not empty
Truthy(s) == s # <<>>

LowerChar(c) == IF c = "A" THEN "a" ELSE IF c = "B" THEN "b" ELSE c

\* String.prototype.toLowerCase
ToLowerCase(s) == [i \in 1..Len(s) |-> LowerChar(s[i])]

\* String.prototype.includes
Includes(s, q) ==
    \E k \in 0..(Len(s) - Len(q)) : SubSeq(s, k + 1, k + Len(q)) = q

\* Math.round(n / d) for d > 0: the nearest integer, halves towards +infinity
RoundDiv(n, d) == (2 * n + d) \div (2 * d)

\* ------------------------------------------------------------- the tasks
Task(id, text, completed, createdAt, prio, due) ==
    [id |-> id, text |-> text, completed |-> completed,
     createdAt |-> createdAt, priority |-> prio, dueDate |-> due]

Undefined == [undefined |-> TRUE]

Ids(ts) == {ts[i].id : i \in 1..Len(ts)}

\* the overdue test without its last conjunct, !task.completed
IsOverdueWhenCompleted(t, clock) == t.dueDate # NoDate /\ t.dueDate < clock

\* task.dueDate && new Date(task.dueDate) < new Date() && !task.completed
IsOverdue(t, clock) == t.dueDate # NoDate /\ t.dueDate < clock /\ ~t.completed

\* addTask keeping a date that is not before now (>= for >)
DueDateForNotBefore(date, clock) == IF date >= clock THEN date ELSE NoDate

\* selectedDate > new Date() ? selectedDate : null
DueDateFor(date, clock) == IF date > clock THEN date ELSE NoDate

\* addTask testing newTask where it tests newTask.trim()
AddAcceptedUntrimmed(text) == Truthy(text)

\* if (newTask.trim()) in addTask
AddAccepted(text) == Truthy(Trim(text))

\* saveEdit testing editedText where it tests editedText.trim()
EditAcceptedUntrimmed(text) == Truthy(text)

\* if (editedText.trim() && onEdit) in saveEdit; onEdit is always passed
EditAccepted(text) == Truthy(Trim(text))

NewTaskObj(text, prio, date, clock) ==
    Task(clock, text, FALSE, clock, prio, DueDateFor(date, clock))

\* addTask appending: [...tasks, newTaskObj]
AddedTasksAtEnd(ts, t) == ts \o <<t>>

\* [newTaskObj, ...tasks]
AddedTasks(ts, t) == <<t>> \o ts

\* toggleTask setting completed: true where it negates it
CompletedTask(t) == [t EXCEPT !.completed = TRUE]

ToggledTask(t) == [t EXCEPT !.completed = ~t.completed]

\* toggleTask mapping every task, without the test of the id
ToggledAllTasks(ts, id) ==
    [i \in 1..Len(ts) |-> [ts[i] EXCEPT !.completed = ~ts[i].completed]]

\* tasks.map(task => task.id === taskId ? {...task, completed: !task.completed} : task)
ToggledTasks(ts, id) ==
    [i \in 1..Len(ts) |-> IF ts[i].id = id THEN ToggledTask(ts[i]) ELSE ts[i]]

\* toggleTask testing some() where it tests every()
SomeCompleted(ts) == \E i \in 1..Len(ts) : ts[i].completed

\* updatedTasks.every(task => task.completed)
EveryCompleted(ts) == \A i \in 1..Len(ts) : ts[i].completed

\* tasks.map(task => task.id === taskId ? {...task, text: newText} : task)
EditedTasks(ts, id, text) ==
    [i \in 1..Len(ts) |-> IF ts[i].id = id THEN [ts[i] EXCEPT !.text = text] ELSE ts[i]]

PriorityTasks(ts, id, prio) ==
    [i \in 1..Len(ts) |-> IF ts[i].id = id THEN [ts[i] EXCEPT !.priority = prio] ELSE ts[i]]

DueDateTasks(ts, id, date) ==
    [i \in 1..Len(ts) |-> IF ts[i].id = id THEN [ts[i] EXCEPT !.dueDate = date] ELSE ts[i]]

\* tasks.filter(task => task.id !== taskToDelete)
DeletedTasks(ts, id) == SelectSeq(ts, LAMBDA t : t.id # id)

\* clearCompleted keeping the completed tasks: filter(task => task.completed)
CompletedTasksOnly(ts) == SelectSeq(ts, LAMBDA t : t.completed)

\* tasks.filter(task => !task.completed)
UncompletedTasks(ts) == SelectSeq(ts, LAMBDA t : ~t.completed)

NextPriority(p) == IF p = "low" THEN "medium" ELSE IF p = "medium" THEN "high" ELSE "low"

\* the predicate of filteredTasks with the query tested under every filter
ShownQueryFirst(t, filter, query) ==
    /\ Truthy(query) => Includes(ToLowerCase(t.text), ToLowerCase(query))
    /\ filter = "active" => ~t.completed
    /\ filter = "completed" => t.completed

\* the predicate of filteredTasks
Shown(t, filter, query) ==
    IF filter = "active" THEN ~t.completed
    ELSE IF filter = "completed" THEN t.completed
    ELSE IF Truthy(query) THEN Includes(ToLowerCase(t.text), ToLowerCase(query))
    ELSE TRUE

\* filteredTasks listing the kept tasks last to first
filteredTasksReversed(ts, filter, query) ==
    LET kept == SelectSeq(ts, LAMBDA t : Shown(t, filter, query))
    IN  [i \in 1..Len(kept) |-> kept[Len(kept) + 1 - i]]

filteredTasks(ts, filter, query) == SelectSeq(ts, LAMBDA t : Shown(t, filter, query))

activeTasksCount(ts) == Len(SelectSeq(ts, LAMBDA t : ~t.completed))
completedTasksCount(ts) == Len(SelectSeq(ts, LAMBDA t : t.completed))
highPriorityCount(ts) == Len(SelectSeq(ts, LAMBDA t : t.priority = "high" /\ ~t.completed))

\* the completion statistic rounding down: Math.floor for Math.round
completionPercentagesFloored(ts) ==
    IF Len(ts) > 0 THEN { (completedTasksCount(ts) * 100) \div Len(ts) } ELSE { 0 }

\* tasks.length > 0 ? Math.round((completedTasksCount / tasks.length) * 100) : 0
\* The quotient and the product are doubles: where the exact value lies
\* halfway between two integers the double may lie just below the half, so
\* both neighbours are outcomes there (23 of 40 gives 57, 1 of 8 gives 13).
completionPercentages(ts) ==
    IF Len(ts) > 0
    THEN LET c == completedTasksCount(ts)
             up == RoundDiv(c * 100, Len(ts))
         IN  IF (200 * c + Len(ts)) % (2 * Len(ts)) = 0 THEN { up - 1, up } ELSE { up }
    ELSE { 0 }

\* overdueCount, with clock the new Date() of the render that computes it
overdueCount(ts, clock) == Len(SelectSeq(ts, LAMBDA t : IsOverdue(t, clock)))

\* Array.prototype.splice: the start index it really uses
SpliceStart(len, start) == IF start < 0 THEN Max(len + start, 0) ELSE Min(start, len)

\* a.splice(start, 1) leaves a without the element at start (0-based)
SpliceOut(ts, start) ==
    LET s == SpliceStart(Len(ts), start)
    IN  IF s < Len(ts) THEN SubSeq(ts, 1, s) \o SubSeq(ts, s + 2, Len(ts)) ELSE ts

\* const [removed] = a.splice(start, 1)
SpliceRemoved(ts, start) ==
    LET s == SpliceStart(Len(ts), start)
    IN  IF s < Len(ts) THEN ts[s + 1] ELSE Undefined

\* a.splice(start, 0, x)
SpliceIn(ts, start, x) ==
    LET s == SpliceStart(Len(ts), start)
    IN  SubSeq(ts, 1, s) \o <<x>> \o SubSeq(ts, s + 1, Len(ts))

\* reorderTasks inserting at toIndex of the list before the removal
ReorderedInOriginalIndexSpace(ts, fromIndex, toIndex) ==
    LET moved == SpliceRemoved(ts, fromIndex)
        grown == SpliceIn(ts, toIndex, moved)
    IN  SpliceOut(grown, IF toIndex <= fromIndex THEN fromIndex + 1 ELSE fromIndex)

\* the list reorderTasks(fromIndex, toIndex) passes to setTasks
ReorderedTasks(ts, fromIndex, toIndex) ==
    SpliceIn(SpliceOut(ts, fromIndex), toIndex, SpliceRemoved(ts, fromIndex))

\* Math.round(gestureState.dy / 60)
DropPosition(dy) == RoundDiv(dy, DragRowHeight)

\* the drop index without the clamp to [0, totalTasks - 1]
NewIndexUnclamped(index, dy, totalTasks) == index + DropPosition(dy)

\* Math.min(Math.max(index + dropPosition, 0), totalTasks - 1)
NewIndex(index, dy, totalTasks) == Min(Max(index + DropPosition(dy), 0), totalTasks - 1)

\* ----------------------------------------------------------- persistence
Absent == [kind |-> "absent"]
Malformed == [kind |-> "garbage"]

\* Date.prototype.toJSON and new Date(string)
ToISOString(t) == <<"iso", t>>
ParseDate(s) == s[2]

JsonNull == <<"null">>

StringifyTask(t) ==
    [id |-> t.id, text |-> t.text, completed |-> t.completed,
     createdAt |-> ToISOString(t.createdAt), priority |-> t.priority,
     dueDate |-> IF t.dueDate = NoDate THEN JsonNull ELSE ToISOString(t.dueDate)]

\* JSON.stringify(tasks)
Stringify(ts) == [kind |-> "text", json |-> [i \in 1..Len(ts) |-> StringifyTask(ts[i])]]

\* the revival of a task without its dueDate line: dueDate: null
ReviveTaskWithoutDueDate(j) ==
    [id |-> j.id, text |-> j.text, completed |-> j.completed,
     createdAt |-> ParseDate(j.createdAt), priority |-> j.priority,
     dueDate |-> NoDate]

\* {...task, createdAt: new Date(task.createdAt),
\*  dueDate: task.dueDate ? new Date(task.dueDate) : null}
ReviveTask(j) ==
    [id |-> j.id, text |-> j.text, completed |-> j.completed,
     createdAt |-> ParseDate(j.createdAt), priority |-> j.priority,
     dueDate |-> IF j.dueDate = JsonNull THEN NoDate ELSE ParseDate(j.dueDate)]

\* JSON.parse(savedTasks).map(...)
TasksWithDates(v) == [i \in 1..Len(v.json) |-> ReviveTask(v.json[i])]

\* loadData throws when a getItem rejects or JSON.parse rejects the text
LoadFails(readFails, stored) == readFails \/ stored.kind = "garbage"

\* if (savedTasks) setTasks(tasksWithDates): the list after loadData
LoadedTasks(failed, stored, current) ==
    IF ~failed /\ stored # Absent THEN TasksWithDates(stored) ELSE current

\* loadData without the test of savedTheme: setIsDarkMode(savedTheme === 'dark')
LoadedThemeUnguarded(failed, stored, current) ==
    IF failed THEN current
    ELSE IF stored = Absent THEN FALSE ELSE stored.json = "dark"

\* if (savedTheme) setIsDarkMode(savedTheme === 'dark')
LoadedTheme(failed, stored, current) ==
    IF ~failed /\ stored # Absent THEN stored.json = "dark" ELSE current

\* loadData with setIsLoading(false) as the last statement of the try block
LoadingAfterLoadInTry(failed) == failed

\* finally { setIsLoading(false) }
LoadingAfterLoad(failed) == FALSE

ThemeString(dark) == IF dark THEN "dark" ELSE "light"

SetItem(key, value) == [kind |-> "setItem", key |-> key, value |-> value]
RemoveItem(key) == [kind |-> "removeItem", key |-> key, value |-> Absent]

\* the saveTasks effect writing a patch, the newest task, not the whole list
SaveTasksEffectNewestOnly(changed, loading, ts) ==
    IF changed /\ ~loading
    THEN << SetItem("@tasks", Stringify(SubSeq(ts, 1, Min(1, Len(ts))))) >>
    ELSE <<>>

\* the write issued by the saveTasks effect when tasks or isLoading changed
SaveTasksEffect(changed, loading, ts) ==
    IF changed /\ ~loading THEN << SetItem("@tasks", Stringify(ts)) >> ELSE <<>>

\* the saveTheme effect without its test of isLoading
SaveThemeEffectWhileLoading(changed, loading, dark) ==
    IF changed
    THEN << SetItem("@theme", [kind |-> "text", json |-> ThemeString(dark)]) >>
    ELSE <<>>

\* the write issued by the saveTheme effect when isDarkMode or isLoading changed
SaveThemeEffect(changed, loading, dark) ==
    IF changed /\ ~loading
    THEN << SetItem("@theme", [kind |-> "text", json |-> ThemeString(dark)]) >>
    ELSE <<>>

\* ------------------------------------------------- the rendered TaskItems
\* id is the task the item renders (its key), the rest what its responder captured
Snapshot(id, index, total, ts) ==
    [id |-> id, index |-> index, totalTasks |-> total, tasks |-> ts]

\* the props of the TaskItems that filteredTasks.map renders for task id
FreshSnapshots(ts, shown, id) ==
    { Snapshot(id, i - 1, Len(shown), ts) : i \in {k \in 1..Len(shown) : shown[k].id = id} }

\* A TaskItem keeps the drag responder of its first render for as long as its
\* key stays in the list.  Two items with one key are outside React's
\* contract: either may keep or lose its instance, so every candidate stays.
MountedAfter(old, loading, ts, filter, query) ==
    IF loading THEN << >>
    ELSE LET shown == filteredTasks(ts, filter, query)
         IN  [id \in Ids(shown) |->
                LET n == Cardinality({k \in 1..Len(shown) : shown[k].id = id})
                    kept == IF id \in DOMAIN old THEN old[id] ELSE {}
                IN  IF kept = {} THEN FreshSnapshots(ts, shown, id)
                    ELSE IF n <= Cardinality(kept) THEN kept
                    ELSE kept \cup FreshSnapshots(ts, shown, id)]

Op(name, a, b, text, src) == [name |-> name, a |-> a, b |-> b, text |-> text, src |-> src]

\* the render's effects with saveTasks depending on [isLoading] alone: no
\* write when only tasks changed
RenderSavingOnLoadOnly(tasksSet, themeSet, direct) ==
    /\ pending' = pending \o direct
                    \o SaveTasksEffect(tasksSet /\ isLoading # isLoading', isLoading', tasks')
                    \o SaveThemeEffect(themeSet, isLoading', isDarkMode')
    /\ Len(pending') <= MaxPending

\* what follows every handler: the effects of the render it caused
Render(tasksSet, themeSet, direct) ==
    /\ pending' = pending \o direct
                    \o SaveTasksEffect(tasksSet, isLoading', tasks')
                    \o SaveThemeEffect(themeSet, isLoading', isDarkMode')
    /\ Len(pending') <= MaxPending

\* the TaskItems of the render a step caused
WithItems(Step) ==
    /\ Step
    /\ mounted' = MountedAfter(mounted, isLoading', tasks', activeFilter', searchQuery')

\* the same step with MainApp alone in view
StoreOnly(Step) == Step /\ UNCHANGED mounted

Ready == ~isLoading /\ ~modalVisible
Displayed == filteredTasks(tasks, activeFilter, searchQuery)

\* ------------------------------------------------------------------ Init
SampleStored ==
    << Task(0, <<"a">>, FALSE, 0, "medium", NoDate) >>

InitialStorage == { Absent, Malformed, Stringify(<<>>), Stringify(SampleStored) }

InitState(stored, theme) ==
    /\ tasks = <<>>
    /\ newTask = <<>>
    /\ modalVisible = FALSE
    /\ taskToDelete = NoTask
    /\ activeFilter = "all"
    /\ searchQuery = <<>>
    /\ isDarkMode = TRUE
    /\ selectedDate = now
    /\ priority = "medium"
    /\ showConfetti = FALSE
    /\ isLoading = TRUE
    /\ timers = 0
    /\ storage = [tasks |-> stored, theme |-> theme]
    /\ pending = <<>>
    /\ mounted = << >>
    /\ op = Op("mount", -1, -1, <<>>, <<>>)

\* --------------------------------------------------------------- actions
\* the clock advances
Tick ==
    /\ now < MaxTime
    /\ now' = now + 1
    /\ op' = Op("tick", -1, -1, <<>>, <<>>)
    /\ UNCHANGED << tasks, newTask, modalVisible, taskToDelete, activeFilter,
                    searchQuery, isDarkMode, selectedDate, priority, showConfetti,
                    isLoading, timers, storage, pending >>

\* loadData: both reads, the parse, and the finally block.  readFails is a
\* getItem that rejects; a stored text that does not parse throws as well.
\* op.a is 1 when the read failed; op.b is 1 and op.src the list in memory
\* before the app was closed, when the load is that of a reopened app.
LoadData(readFails) ==
    /\ isLoading
    /\ LET failed == LoadFails(readFails, storage.tasks)
       IN  /\ tasks' = LoadedTasks(failed, storage.tasks, tasks)
           /\ isDarkMode' = LoadedTheme(failed, storage.theme, isDarkMode)
           /\ isLoading' = LoadingAfterLoad(failed)
    /\ op' = Op("loadData", IF readFails THEN 1 ELSE 0,
                 IF op.name = "restart" THEN 1 ELSE 0, <<>>,
                 IF op.name = "restart" THEN op.src ELSE <<>>)
    /\ UNCHANGED << newTask, modalVisible, taskToDelete, activeFilter, searchQuery,
                    selectedDate, priority, showConfetti, now, timers, storage >>
    /\ Render(TRUE, TRUE, <<>>)

\* The app is closed and opened again once its writes have settled: MainApp
\* mounts with its initial state, AsyncStorage keeps its entries.  The save
\* effects run after this first render as after any other.
Restart ==
    /\ ~isLoading
    /\ pending = <<>>
    /\ tasks' = <<>>
    /\ newTask' = <<>>
    /\ modalVisible' = FALSE
    /\ taskToDelete' = NoTask
    /\ activeFilter' = "all"
    /\ searchQuery' = <<>>
    /\ isDarkMode' = TRUE
    /\ selectedDate' = now
    /\ priority' = "medium"
    /\ showConfetti' = FALSE
    /\ isLoading' = TRUE
    /\ timers' = 0
    /\ op' = Op("restart", -1, -1, <<>>, tasks)
    /\ UNCHANGED << now, storage >>
    /\ Render(TRUE, TRUE, <<>>)

\* no handler has run since clearAllTasks: only its operations settled
AfterClearAll == op.name = "clearAllTasks" \/ (op.name = "settle" /\ op.b = 1)

\* a rejected write undone in memory: the list set back to the stored one
TasksAfterSettleRolledBack(ok, stored, current) ==
    IF ok THEN current
    ELSE IF stored.kind = "text" THEN TasksWithDates(stored) ELSE <<>>

\* catch (error) { console.error(...) } of saveTasks and of clearAllTasks:
\* the list in memory after an operation settled
TasksAfterSettle(ok, stored, current) == current

\* an AsyncStorage operation settles: applied to the store, or rejected
\* (the rejection is caught and logged).  op.text tells a rejection, op.a
\* is 1 when the operation settled just before was rejected, op.b is 1
\* while AfterClearAll, op.src is the operation.
StorageSettle(ok) ==
    /\ pending # <<>>
    /\ LET o == Head(pending)
       IN  /\ storage' = IF ~ok THEN storage
                         ELSE IF o.key = "@tasks" THEN [storage EXCEPT !.tasks = o.value]
                         ELSE [storage EXCEPT !.theme = o.value]
           /\ op' = Op("settle",
                       IF op.name = "settle" /\ op.text # <<>> THEN 1 ELSE 0,
                       IF AfterClearAll THEN 1 ELSE 0,
                       IF ok THEN <<>> ELSE <<"rejected">>,
                       << o >>)
    /\ pending' = Tail(pending)
    /\ tasks' = TasksAfterSettle(ok, storage.tasks, tasks)
    /\ UNCHANGED << newTask, modalVisible, taskToDelete, activeFilter,
                    searchQuery, isDarkMode, selectedDate, priority, showConfetti,
                    isLoading, now, timers >>

\* the k-th operation in flight settles, ahead of those issued before it:
\* the promises of AsyncStorage are awaited by no one and ordered by nothing
\* in MainApp
StorageSettleAt(k) ==
    /\ k \in 1..Len(pending)
    /\ LET o == pending[k]
       IN  storage' = IF o.key = "@tasks" THEN [storage EXCEPT !.tasks = o.value]
                      ELSE [storage EXCEPT !.theme = o.value]
    /\ pending' = SubSeq(pending, 1, k - 1) \o SubSeq(pending, k + 1, Len(pending))
    /\ op' = Op("settle", k, IF AfterClearAll THEN 1 ELSE 0, <<>>, <<>>)
    /\ UNCHANGED << tasks, newTask, modalVisible, taskToDelete, activeFilter,
                    searchQuery, isDarkMode, selectedDate, priority, showConfetti,
                    isLoading, now, timers >>

\* setTimeout(() => setShowConfetti(false), 3000)
ConfettiTimeout ==
    /\ timers > 0
    /\ timers' = timers - 1
    /\ showConfetti' = FALSE
    /\ op' = Op("confettiTimeout", -1, -1, <<>>, <<>>)
    /\ UNCHANGED << tasks, newTask, modalVisible, taskToDelete, activeFilter,
                    searchQuery, isDarkMode, selectedDate, priority, isLoading, now,
                    storage >>
    /\ Render(FALSE, FALSE, <<>>)

\* onChangeText={setNewTask}
SetNewTask(text) ==
    /\ Ready
    /\ newTask' = text
    /\ op' = Op("setNewTask", -1, -1, text, <<>>)
    /\ UNCHANGED << tasks, modalVisible, taskToDelete, activeFilter, searchQuery,
                    isDarkMode, selectedDate, priority, showConfetti, isLoading, now,
                    timers, storage >>
    /\ Render(FALSE, FALSE, <<>>)

\* the priority selector of the add form
CyclePriority ==
    /\ Ready
    /\ priority' = NextPriority(priority)
    /\ op' = Op("setPriority", -1, -1, <<>>, <<>>)
    /\ UNCHANGED << tasks, newTask, modalVisible, taskToDelete, activeFilter,
                    searchQuery, isDarkMode, selectedDate, showConfetti, isLoading,
                    now, timers, storage >>
    /\ Render(FALSE, FALSE, <<>>)

\* handleDateChange with a date picked
HandleDateChange(date) ==
    /\ Ready
    /\ selectedDate' = date
    /\ op' = Op("handleDateChange", date, -1, <<>>, <<>>)
    /\ UNCHANGED << tasks, newTask, modalVisible, taskToDelete, activeFilter,
                    searchQuery, isDarkMode, priority, showConfetti, isLoading, now,
                    timers, storage >>
    /\ Render(FALSE, FALSE, <<>>)

\* addTask
AddTask ==
    /\ Ready
    /\ op' = Op("addTask", selectedDate, -1, newTask, <<>>)
    /\ UNCHANGED << modalVisible, taskToDelete, activeFilter, searchQuery, isDarkMode,
                    showConfetti, isLoading, now, timers, storage >>
    /\ IF AddAccepted(newTask)
       THEN /\ Len(tasks) < MaxTasks
            /\ tasks' = AddedTasks(tasks, NewTaskObj(newTask, priority, selectedDate, now))
            /\ newTask' = <<>>
            /\ priority' = "medium"
            /\ selectedDate' = now
            /\ Render(TRUE, FALSE, <<>>)
       ELSE /\ UNCHANGED << tasks, newTask, priority, selectedDate >>
            /\ Render(FALSE, FALSE, <<>>)

\* toggleTask(taskId).  op.b counts the calls made in a row with this id
\* (1, 2, 1, ...) and op.src is the list before the first of them.
ToggleTask(taskId) ==
    /\ Ready
    /\ LET updatedTasks == ToggledTasks(tasks, taskId)
       IN  /\ tasks' = updatedTasks
           /\ IF EveryCompleted(updatedTasks)
              THEN /\ timers < MaxTimers
                   /\ showConfetti' = TRUE
                   /\ timers' = timers + 1
              ELSE UNCHANGED << showConfetti, timers >>
    /\ op' = IF op.name = "toggleTask" /\ op.a = taskId /\ op.b = 1
             THEN Op("toggleTask", taskId, 2, <<>>, op.src)
             ELSE Op("toggleTask", taskId, 1, <<>>, tasks)
    /\ UNCHANGED << newTask, modalVisible, taskToDelete, activeFilter, searchQuery,
                    isDarkMode, selectedDate, priority, isLoading, now, storage >>
    /\ Render(TRUE, FALSE, <<>>)

\* TaskItem.saveEdit, which calls onEdit = editTask(task.id, editedText)
SaveEdit(taskId, editedText) ==
    /\ Ready
    /\ op' = Op("saveEdit", taskId, -1, editedText, <<>>)
    /\ UNCHANGED << newTask, modalVisible, taskToDelete, activeFilter, searchQuery,
                    isDarkMode, selectedDate, priority, showConfetti, isLoading, now,
                    timers, storage >>
    /\ IF EditAccepted(editedText)
       THEN /\ tasks' = EditedTasks(tasks, taskId, editedText)
            /\ Render(TRUE, FALSE, <<>>)
       ELSE /\ UNCHANGED tasks
            /\ Render(FALSE, FALSE, <<>>)

\* TaskItem.changePriority, which calls onPriorityChange = updateTaskPriority
ChangePriority(task) ==
    /\ Ready
    /\ tasks' = PriorityTasks(tasks, task.id, NextPriority(task.priority))
    /\ op' = Op("updateTaskPriority", task.id, -1, <<>>, <<>>)
    /\ UNCHANGED << newTask, modalVisible, taskToDelete, activeFilter, searchQuery,
                    isDarkMode, selectedDate, priority, showConfetti, isLoading, now,
                    timers, storage >>
    /\ Render(TRUE, FALSE, <<>>)

\* TaskItem.handleDateChange, which calls onDueDateChange = updateTaskDueDate
ChangeDueDate(taskId, date) ==
    /\ Ready
    /\ tasks' = DueDateTasks(tasks, taskId, date)
    /\ op' = Op("updateTaskDueDate", taskId, date, <<>>, <<>>)
    /\ UNCHANGED << newTask, modalVisible, taskToDelete, activeFilter, searchQuery,
                    isDarkMode, selectedDate, priority, showConfetti, isLoading, now,
                    timers, storage >>
    /\ Render(TRUE, FALSE, <<>>)

\* prepareDelete(taskId)
PrepareDelete(taskId) ==
    /\ Ready
    /\ taskToDelete' = taskId
    /\ modalVisible' = TRUE
    /\ op' = Op("prepareDelete", taskId, -1, <<>>, <<>>)
    /\ UNCHANGED << tasks, newTask, activeFilter, searchQuery, isDarkMode,
                    selectedDate, priority, showConfetti, isLoading, now, timers,
                    storage >>
    /\ Render(FALSE, FALSE, <<>>)

\* confirmDelete, the modal's onConfirm
ConfirmDelete ==
    /\ ~isLoading /\ modalVisible
    /\ tasks' = DeletedTasks(tasks, taskToDelete)
    /\ modalVisible' = FALSE
    /\ taskToDelete' = NoTask
    /\ op' = Op("confirmDelete", taskToDelete, -1, <<>>, <<>>)
    /\ UNCHANGED << newTask, activeFilter, searchQuery, isDarkMode, selectedDate,
                    priority, showConfetti, isLoading, now, timers, storage >>
    /\ Render(TRUE, FALSE, <<>>)

\* the modal's onCancel: () => setModalVisible(false)
CancelDelete ==
    /\ ~isLoading /\ modalVisible
    /\ modalVisible' = FALSE
    /\ op' = Op("cancelDelete", taskToDelete, -1, <<>>, <<>>)
    /\ UNCHANGED << tasks, newTask, taskToDelete, activeFilter, searchQuery,
                    isDarkMode, selectedDate, priority, showConfetti, isLoading, now,
                    timers, storage >>
    /\ Render(FALSE, FALSE, <<>>)

\* clearCompleted, offered while completedTasksCount > 0; op.src is the
\* list it was called on
ClearCompleted ==
    /\ Ready
    /\ completedTasksCount(tasks) > 0
    /\ tasks' = UncompletedTasks(tasks)
    /\ op' = Op("clearCompleted", -1, -1, <<>>, tasks)
    /\ UNCHANGED << newTask, modalVisible, taskToDelete, activeFilter, searchQuery,
                    isDarkMode, selectedDate, priority, showConfetti, isLoading, now,
                    timers, storage >>
    /\ Render(TRUE, FALSE, <<>>)

\* clearAllTasks, offered while tasks.length > 0: removeItem is issued by the
\* handler, the write of the emptied list by the effect that follows it
ClearAllTasks ==
    /\ Ready
    /\ Len(tasks) > 0
    /\ tasks' = <<>>
    /\ op' = Op("clearAllTasks", -1, -1, <<>>, <<>>)
    /\ UNCHANGED << newTask, modalVisible, taskToDelete, activeFilter, searchQuery,
                    isDarkMode, selectedDate, priority, showConfetti, isLoading, now,
                    timers, storage >>
    /\ Render(TRUE, FALSE, << RemoveItem("@tasks") >>)

\* toggleTheme
ToggleTheme ==
    /\ Ready
    /\ isDarkMode' = ~isDarkMode
    /\ op' = Op("toggleTheme", -1, -1, <<>>, <<>>)
    /\ UNCHANGED << tasks, newTask, modalVisible, taskToDelete, activeFilter,
                    searchQuery, selectedDate, priority, showConfetti, isLoading, now,
                    timers, storage >>
    /\ Render(FALSE, TRUE, <<>>)

\* the filter tabs
SetActiveFilter(filter) ==
    /\ Ready
    /\ activeFilter' = filter
    /\ op' = Op("setActiveFilter", -1, -1, <<>>, <<>>)
    /\ UNCHANGED << tasks, newTask, modalVisible, taskToDelete, searchQuery,
                    isDarkMode, selectedDate, priority, showConfetti, isLoading, now,
                    timers, storage >>
    /\ Render(FALSE, FALSE, <<>>)

\* onChangeText={setSearchQuery}
SetSearchQuery(query) ==
    /\ Ready
    /\ searchQuery' = query
    /\ op' = Op("setSearchQuery", -1, -1, query, <<>>)
    /\ UNCHANGED << tasks, newTask, modalVisible, taskToDelete, activeFilter,
                    isDarkMode, selectedDate, priority, showConfetti, isLoading, now,
                    timers, storage >>
    /\ Render(FALSE, FALSE, <<>>)

\* reorderTasks(fromIndex, toIndex) as a render's closure runs it: on the
\* tasks of that render; op.text holds the id of the item that was dragged
ReorderTasksFor(item, ts, fromIndex, toIndex) ==
    /\ tasks' = ReorderedTasks(ts, fromIndex, toIndex)
    /\ op' = Op("reorderTasks", fromIndex, toIndex, item, ts)
    /\ UNCHANGED << newTask, modalVisible, taskToDelete, activeFilter, searchQuery,
                    isDarkMode, selectedDate, priority, showConfetti, isLoading, now,
                    timers, storage >>
    /\ Render(TRUE, FALSE, <<>>)

\* reorderTasks called on its own, without a dragged item
ReorderTasks(ts, fromIndex, toIndex) == ReorderTasksFor(<<>>, ts, fromIndex, toIndex)

\* dragResponder.onPanResponderRelease of a TaskItem whose responder captured
\* the props in snap
DragRelease(snap, dy) ==
    /\ Ready
    /\ LET newIndex == NewIndex(snap.index, dy, snap.totalTasks)
       IN  IF newIndex # snap.index
           THEN ReorderTasksFor(<< snap.id >>, snap.tasks, snap.index, newIndex)
           ELSE /\ op' = Op("dragRelease", snap.index, newIndex, <<>>, <<>>)
                /\ UNCHANGED << tasks, newTask, modalVisible, taskToDelete,
                                activeFilter, searchQuery, isDarkMode, selectedDate,
                                priority, showConfetti, isLoading, now, timers,
                                storage >>
                /\ Render(FALSE, FALSE, <<>>)

\* ------------------------------------------------------- specifications
\* The ids a call can name: those the clock can have produced, and 0
TaskIds == 0..MaxTime

\* no AsyncStorage operation is in flight
Quiet == pending = <<>>

InitStore ==
    /\ now = 1
    /\ \E stored \in { Absent, Stringify(SampleStored) } : InitState(stored, Absent)

\* Spec: the add form and the delete flow, with the storage settled between
\* two user events.  The TaskItems' drag responders are followed in SpecDrag
\* only, the one specification with drag events.
Next ==
    \/ StoreOnly(Tick)
    \/ \E readFails \in BOOLEAN : StoreOnly(LoadData(readFails))
    \/ StoreOnly(StorageSettle(TRUE))
    \/ \E text \in Texts : StoreOnly(Quiet /\ SetNewTask(text))
    \/ StoreOnly(Quiet /\ AddTask)
    \/ \E i \in 1..Len(Displayed) : StoreOnly(Quiet /\ PrepareDelete(Displayed[i].id))
    \/ StoreOnly(Quiet /\ ConfirmDelete)
    \/ StoreOnly(Quiet /\ CancelDelete)

Spec == InitStore /\ [][Next]_vars

\* SpecEdit: the add form and the TaskItems' edit field.
NextEdit ==
    \/ StoreOnly(Tick)
    \/ \E readFails \in BOOLEAN : StoreOnly(LoadData(readFails))
    \/ StoreOnly(StorageSettle(TRUE))
    \/ \E text \in Texts : StoreOnly(Quiet /\ SetNewTask(text))
    \/ StoreOnly(Quiet /\ AddTask)
    \/ \E i \in 1..Len(Displayed) : \E text \in Texts :
            StoreOnly(Quiet /\ SaveEdit(Displayed[i].id, text))

SpecEdit == InitStore /\ [][NextEdit]_vars

\* SpecDates: the add form with its date selector.
NextDates ==
    \/ StoreOnly(Tick)
    \/ \E readFails \in BOOLEAN : StoreOnly(LoadData(readFails))
    \/ StoreOnly(StorageSettle(TRUE))
    \/ \E text \in { <<>>, <<"a">> } : StoreOnly(Quiet /\ SetNewTask(text))
    \/ \E date \in Dates : StoreOnly(Quiet /\ HandleDateChange(date))
    \/ StoreOnly(Quiet /\ AddTask)

SpecDates == InitStore /\ [][NextDates]_vars

\* SpecToggle: toggleTask called with any id, after adds; a toggle may
\* follow another whose write is the one still in flight, every other event
\* waits for the writes in flight.
NextToggle ==
    \/ StoreOnly(Quiet /\ Tick)
    \/ \E readFails \in BOOLEAN : StoreOnly(LoadData(readFails))
    \/ StoreOnly(StorageSettle(TRUE))
    \/ StoreOnly(ConfettiTimeout)
    \/ \E text \in { <<"a">> } : StoreOnly(Quiet /\ SetNewTask(text))
    \/ StoreOnly(Quiet /\ AddTask)
    \/ \E taskId \in TaskIds :
           StoreOnly((Quiet \/ (op.name = "toggleTask" /\ Len(pending) = 1))
                      /\ ToggleTask(taskId))

SpecToggle == InitStore /\ [][NextToggle]_vars

\* SpecReorder: reorderTasks on the current list with every pair of indices
\* in range, from a list of distinct tasks as successive adds build it.
RECURSIVE AddedList(_)
AddedList(n) ==
    IF n = 0 THEN <<>>
    ELSE AddedTasks(AddedList(n - 1), NewTaskObj(<<"a">>, "medium", n, n))

InitReorder ==
    \E n \in 1..ReorderLen :
        /\ now = n
        /\ tasks = AddedList(n)
        /\ newTask = <<>>
        /\ modalVisible = FALSE
        /\ taskToDelete = NoTask
        /\ activeFilter = "all"
        /\ searchQuery = <<>>
        /\ isDarkMode = TRUE
        /\ selectedDate = n
        /\ priority = "medium"
        /\ showConfetti = FALSE
        /\ isLoading = FALSE
        /\ timers = 0
        /\ storage = [tasks |-> Stringify(tasks), theme |-> Absent]
        /\ pending = <<>>
        /\ mounted = << >>
        /\ op = Op("addTask", n, -1, <<"a">>, <<>>)

NextReorder ==
    \/ StoreOnly(StorageSettle(TRUE))
    \/ \E fromIndex, toIndex \in 0..(Len(tasks) - 1) :
            StoreOnly(Quiet /\ Ready /\ ReorderTasks(tasks, fromIndex, toIndex))

SpecReorder == InitReorder /\ [][NextReorder]_vars

\* SpecDrag: the rendered TaskItems and their drag responders, under every
\* filter and search query, on a stored list of three tasks; clearCompleted
\* shortens the list under the items that stay mounted.
StoredForDrag ==
    << Task(2, <<"a">>, FALSE, 2, "medium", NoDate),
       Task(1, <<" ", "B">>, TRUE, 1, "medium", NoDate),
       Task(0, <<"a">>, TRUE, 0, "medium", NoDate) >>

InitDrag ==
    /\ now = MaxTime
    /\ InitState(Stringify(StoredForDrag), Absent)

NextDrag ==
    \/ \E readFails \in BOOLEAN : WithItems(LoadData(readFails))
    \/ WithItems(StorageSettle(TRUE))
    \/ \E filter \in Filters : WithItems(Quiet /\ SetActiveFilter(filter))
    \/ \E query \in { <<>>, <<"b">> } : WithItems(Quiet /\ SetSearchQuery(query))
    \/ WithItems(Quiet /\ ClearCompleted)
    \/ \E id \in DOMAIN mounted : \E snap \in mounted[id] : \E dy \in DragDistances :
            WithItems(Quiet /\ DragRelease(snap, dy))

SpecDrag == InitDrag /\ [][NextDrag]_vars

\* SpecClear: adds, toggles of the displayed tasks and clearCompleted.
NextClear ==
    \/ StoreOnly(Tick)
    \/ \E readFails \in BOOLEAN : StoreOnly(LoadData(readFails))
    \/ StoreOnly(StorageSettle(TRUE))
    \/ \E text \in { <<"a">> } : StoreOnly(Quiet /\ SetNewTask(text))
    \/ StoreOnly(Quiet /\ AddTask)
    \/ \E i \in 1..Len(Displayed) : StoreOnly(Quiet /\ ToggleTask(Displayed[i].id))
    \/ StoreOnly(Quiet /\ ClearCompleted)
    \/ StoreOnly(ConfettiTimeout)

SpecClear == InitStore /\ [][NextClear]_vars

\* SpecFilter: the filter tabs and the search field over a stored list whose
\* tasks are toggled and edited.
NextFilter ==
    \/ \E readFails \in BOOLEAN : StoreOnly(LoadData(readFails))
    \/ StoreOnly(StorageSettle(TRUE))
    \/ StoreOnly(ConfettiTimeout)
    \/ \E filter \in Filters : StoreOnly(Quiet /\ SetActiveFilter(filter))
    \/ \E query \in Queries : StoreOnly(Quiet /\ SetSearchQuery(query))
    \/ \E i \in 1..Len(Displayed) : StoreOnly(Quiet /\ ToggleTask(Displayed[i].id))
    \/ \E i \in 1..Len(Displayed) : \E text \in { <<"a">>, <<" ", "B">> } :
            StoreOnly(Quiet /\ SaveEdit(Displayed[i].id, text))

SpecFilter == InitDrag /\ [][NextFilter]_vars

\* SpecCounts: the statistics over a stored list of tasks with and without a
\* due date, toggled and re-prioritised while the clock passes the due dates.
StoredForCounts ==
    << Task(2, <<"a">>, FALSE, 0, "high", 1),
       Task(1, <<"a">>, FALSE, 0, "medium", 1),
       Task(0, <<"a">>, TRUE, 0, "low", NoDate) >>

InitCounts ==
    /\ now = 0
    /\ InitState(Stringify(StoredForCounts), Absent)

NextCounts ==
    \/ StoreOnly(Tick)
    \/ \E readFails \in BOOLEAN : StoreOnly(LoadData(readFails))
    \/ StoreOnly(StorageSettle(TRUE))
    \/ StoreOnly(ConfettiTimeout)
    \/ \E i \in 1..Len(Displayed) : StoreOnly(Quiet /\ ToggleTask(Displayed[i].id))
    \/ \E i \in 1..Len(Displayed) : StoreOnly(Quiet /\ ChangePriority(Displayed[i]))

SpecCounts == InitCounts /\ [][NextCounts]_vars

\* SpecPercent: the completion statistic over lists of up to PercentLen
\* tasks, built by successive adds and completed from the newest task on:
\* the tasks toggled are the first incomplete one and the last completed one.
\* The lengths are the short ones, the longest ones, and the multiples of 40,
\* where the percentage falls halfway between two integers.
PercentLens == { n \in 0..PercentLen : n <= 8 \/ n % 40 = 0 \/ n >= PercentLen - 1 }

\* the list after n adds at the clock readings 1..n, newest first
AddedRun(n) ==
    [i \in 1..n |-> NewTaskObj(<<"a">>, "medium", n + 1 - i, n + 1 - i)]

InitPercent ==
    \E n \in PercentLens :
        /\ now = n
        /\ tasks = AddedRun(n)
        /\ newTask = <<>>
        /\ modalVisible = FALSE
        /\ taskToDelete = NoTask
        /\ activeFilter = "all"
        /\ searchQuery = <<>>
        /\ isDarkMode = TRUE
        /\ selectedDate = n
        /\ priority = "medium"
        /\ showConfetti = FALSE
        /\ isLoading = FALSE
        /\ timers = 0
        /\ storage = [tasks |-> Stringify(tasks), theme |-> Absent]
        /\ pending = <<>>
        /\ mounted = << >>
        /\ op = Op("addTask", n, -1, <<"a">>, <<>>)

NextPercent ==
    \/ StoreOnly(StorageSettle(TRUE))
    \/ StoreOnly(ConfettiTimeout)
    \/ \E i \in { completedTasksCount(tasks), completedTasksCount(tasks) + 1 }
                    \cap (1..Len(tasks)) :
            StoreOnly(Quiet /\ ToggleTask(tasks[i].id))

SpecPercent == InitPercent /\ [][NextPercent]_vars

\* SpecPersist: tasks added with a past or a future date selected, the
\* newest of them toggled, the writes settled, and the app closed and opened
\* again.
NextPersist ==
    \/ StoreOnly(Quiet /\ Tick)
    \/ \E readFails \in BOOLEAN : StoreOnly(LoadData(readFails))
    \/ StoreOnly(StorageSettle(TRUE))
    \/ StoreOnly(ConfettiTimeout)
    \/ \E text \in { <<"a">> } : StoreOnly(Quiet /\ SetNewTask(text))
    \/ \E date \in { 0, MaxTime + 1 } : StoreOnly(Quiet /\ HandleDateChange(date))
    \/ StoreOnly(Quiet /\ AddTask)
    \/ \E i \in 1..Min(1, Len(Displayed)) : StoreOnly(Quiet /\ ToggleTask(Displayed[i].id))
    \/ StoreOnly(Restart)

SpecPersist == InitStore /\ [][NextPersist]_vars

\* SpecClearAll: adds and clearAllTasks whose storage operations settle in
\* the order of their issue; an add or a clearAllTasks may come while writes
\* are in flight.
NextClearAll ==
    \/ StoreOnly(Quiet /\ Tick)
    \/ \E readFails \in BOOLEAN : StoreOnly(LoadData(readFails))
    \/ StoreOnly(StorageSettle(TRUE))
    \/ \E text \in { <<"a">> } : StoreOnly(Quiet /\ SetNewTask(text))
    \/ StoreOnly(AddTask)
    \/ StoreOnly(ClearAllTasks)

SpecClearAll == InitStore /\ [][NextClearAll]_vars

\* SpecClearAllAnyOrder: the same events, the storage operations in flight
\* settling in any order.
NextClearAllAnyOrder ==
    \/ StoreOnly(Quiet /\ Tick)
    \/ \E readFails \in BOOLEAN : StoreOnly(LoadData(readFails))
    \/ \E k \in 1..Len(pending) : StoreOnly(StorageSettleAt(k))
    \/ \E text \in { <<"a">> } : StoreOnly(Quiet /\ SetNewTask(text))
    \/ StoreOnly(AddTask)
    \/ StoreOnly(ClearAllTasks)

SpecClearAllAnyOrder == InitStore /\ [][NextClearAllAnyOrder]_vars

\* SpecLoad: the app opened on every kind of stored content (no entry, a text
\* that does not parse, an empty list, a list; no theme, dark, light), with
\* reads that fail, then used, closed and opened again.
StoredThemes == { Absent } \cup { [kind |-> "text", json |-> ThemeString(dark)] : dark \in BOOLEAN }

InitLoad ==
    /\ now = 1
    /\ \E stored \in InitialStorage : \E theme \in StoredThemes : InitState(stored, theme)

NextLoad ==
    \/ \E readFails \in BOOLEAN : StoreOnly(LoadData(readFails))
    \/ StoreOnly(StorageSettle(TRUE))
    \/ \E text \in { <<"a">> } : StoreOnly(Quiet /\ SetNewTask(text))
    \/ StoreOnly(Quiet /\ AddTask)
    \/ StoreOnly(Quiet /\ ToggleTheme)
    \/ StoreOnly(Restart)

SpecLoad == InitLoad /\ [][NextLoad]_vars

\* SpecLoadFair: the same, with the reads of loadData settling (resolved or
\* rejected) at some time, as AsyncStorage's promises do.
SpecLoadFair ==
    SpecLoad /\ WF_vars(\E readFails \in BOOLEAN : StoreOnly(LoadData(readFails)))

\* SpecWrites: toggles and clearAllTasks on a stored list, their storage
\* operations settling in the order of their issue, each accepted or
\* rejected; a toggle may follow another whose write is the one in flight.
NextWrites ==
    \/ \E readFails \in BOOLEAN : StoreOnly(LoadData(readFails))
    \/ \E ok \in BOOLEAN : StoreOnly(StorageSettle(ok))
    \/ StoreOnly(ConfettiTimeout)
    \/ \E i \in 1..Len(Displayed) :
           StoreOnly((Quiet \/ (op.name = "toggleTask" /\ Len(pending) = 1))
                      /\ ToggleTask(Displayed[i].id))
    \/ StoreOnly(Quiet /\ ClearAllTasks)

SpecWrites == InitDrag /\ [][NextWrites]_vars

\* SpecWriteThrough: every kind of mutation of a stored list, each write
\* accepted, in the order of issue; a toggle may follow another whose write
\* is the one in flight. Edits and deletions act on the first row, a reorder
\* moves the first task, and a task is typed in once the list is empty.
NextWriteThrough ==
    \/ \E readFails \in BOOLEAN : StoreOnly(LoadData(readFails))
    \/ StoreOnly(StorageSettle(TRUE))
    \/ StoreOnly(ConfettiTimeout)
    \/ \E text \in { <<"a">> } : StoreOnly(Quiet /\ tasks = <<>> /\ SetNewTask(text))
    \/ StoreOnly(Quiet /\ AddTask)
    \/ \E i \in 1..Len(Displayed) :
           StoreOnly((Quiet \/ (op.name = "toggleTask" /\ Len(pending) = 1))
                      /\ ToggleTask(Displayed[i].id))
    \/ StoreOnly(Quiet /\ Displayed # <<>> /\ SaveEdit(Displayed[1].id, <<"a">>))
    \/ StoreOnly(Quiet /\ Displayed # <<>> /\ PrepareDelete(Displayed[1].id))
    \/ StoreOnly(Quiet /\ ConfirmDelete)
    \/ StoreOnly(Quiet /\ CancelDelete)
    \/ StoreOnly(Quiet /\ ClearCompleted)
    \/ StoreOnly(Quiet /\ ClearAllTasks)
    \/ \E toIndex \in 1..(Len(tasks) - 1) :
            StoreOnly(Quiet /\ Ready /\ ReorderTasks(tasks, 0, toIndex))

SpecWriteThrough == InitDrag /\ [][NextWriteThrough]_vars

\* SpecWriteThroughFair: the same, with every operation in flight settling at
\* some time.
SpecWriteThroughFair == SpecWriteThrough /\ WF_vars(StoreOnly(StorageSettle(TRUE)))

\* ---------------------------------------------------------------- claims
HasDuplicateFreeIds(ts) == \A i, j \in 1..Len(ts) : i # j => ts[i].id # ts[j].id

\* C1: after any sequence of add and remove operations, two adds at one
\* clock reading included, no two tasks of the store have the same id.
C1_UniqueIds == HasDuplicateFreeIds(tasks)

IsBlank(text) == Trim(text) = <<>>

\* C2: every task of the store has a text that is not empty after trimming,
\* and an add or an edit whose text is empty or whitespace leaves the task
\* list unchanged.
C2_TextNeverBlank ==
    /\ [](\A i \in 1..Len(tasks) : ~IsBlank(tasks[i].text))
    /\ [][(op'.name \in {"addTask", "saveEdit"} /\ IsBlank(op'.text)) => tasks' = tasks]_vars

C2_BlankEditTried ==
    /\ op.name = "saveEdit"
    /\ op.text = <<" ">>
    /\ op.a \in Ids(tasks)

\* C3: add with an empty or whitespace-only text is a no-op: the task list
\* after the call is the task list before it.
C3_BlankAddIsNoOp ==
    [][(op'.name = "addTask" /\ IsBlank(newTask)) => tasks' = tasks]_vars

C3_BlankAddTried ==
    /\ op.name = "addTask"
    /\ op.text = <<" ">>
    /\ Len(tasks) >= 1

\* C4: a successful add puts the new task at index 0 and leaves every task
\* stored before present, unmodified and in the same order one index later.
C4_AddInsertsAtHead ==
    [][(op'.name = "addTask" /\ ~IsBlank(newTask)) =>
            /\ Len(tasks') = Len(tasks) + 1
            /\ tasks'[1].text = newTask
            /\ \A i \in 1..Len(tasks) : tasks'[i + 1] = tasks[i]]_vars

C4_AddedBeforeTwo ==
    /\ op.name = "addTask"
    /\ ~IsBlank(op.text)
    /\ Len(tasks) >= 3
    /\ tasks[1].text = op.text

\* C5: a task created by add has completed = false and has the selected
\* date as dueDate only when that date is strictly later than the time of
\* the add, and null otherwise: it is never overdue when it is created.
C5_NewTaskDueDate ==
    [][(op'.name = "addTask" /\ ~IsBlank(newTask)) =>
            /\ tasks'[1].completed = FALSE
            /\ (selectedDate > now => tasks'[1].dueDate = selectedDate)
            /\ (selectedDate <= now => tasks'[1].dueDate = NoDate)
            /\ ~(tasks'[1].dueDate # NoDate /\ tasks'[1].dueDate < now)]_vars

C5_AddedWithFutureDate ==
    /\ op.name = "addTask"
    /\ ~IsBlank(op.text)
    /\ Len(tasks) >= 1
    /\ op.a > now
    /\ tasks[1].dueDate = op.a

\* C6: toggle(id) called twice in a row on an existing task returns the
\* whole task list to what it was before the first call.
C6_DoubleToggleRestores ==
    (op.name = "toggleTask" /\ op.b = 2 /\ op.a \in Ids(op.src)) => tasks = op.src

C6_ToggledTwice ==
    /\ op.name = "toggleTask"
    /\ op.b = 2
    /\ op.a \in Ids(op.src)
    /\ Len(tasks) >= 2

\* C7: toggle(id) changes only the completed flag of the task whose id
\* matches; every other task, every other field and the order stay, and the
\* list is unchanged when no task has that id.
C7_ToggleFrame ==
    [][op'.name = "toggleTask" =>
            /\ Len(tasks') = Len(tasks)
            /\ \A i \in 1..Len(tasks) :
                  IF tasks[i].id = op'.a
                  THEN tasks'[i] = [tasks[i] EXCEPT !.completed = ~tasks[i].completed]
                  ELSE tasks'[i] = tasks[i]
            /\ (op'.a \notin Ids(tasks) => tasks' = tasks)]_vars

C7_ToggledOneOfSeveral ==
    /\ op.name = "toggleTask"
    /\ op.a \in Ids(tasks)
    /\ \E i \in 1..Len(tasks) : tasks[i].id # op.a

\* C8: a toggle that completes a task raises the celebration signal, once,
\* when every task of the store is completed after it, and does not raise
\* it when another task remains incomplete.
C8_Celebration ==
    [][op'.name = "toggleTask" =>
            LET completes == \E i \in 1..Len(tasks) :
                                 tasks[i].id = op'.a /\ ~tasks[i].completed
                allDone == \A i \in 1..Len(tasks') : tasks'[i].completed
            IN  /\ (completes /\ allDone) => (showConfetti' /\ timers' = timers + 1)
                /\ (completes /\ ~allDone) =>
                       (showConfetti' = showConfetti /\ timers' = timers)]_vars

C8_CelebratedLastOfSeveral ==
    /\ op.name = "toggleTask"
    /\ op.a \in Ids(tasks)
    /\ Len(tasks) >= 2
    /\ \A i \in 1..Len(tasks) : tasks[i].completed
    /\ showConfetti
    /\ timers >= 1

WithoutIndex(s, k) == [i \in 1..(Len(s) - 1) |-> IF i < k THEN s[i] ELSE s[i + 1]]

\* C9: reorder(fromIndex, toIndex) with both indices in [0, length-1] moves
\* the task at fromIndex to index toIndex and keeps the relative order of
\* all other tasks; reorder(0, 2) on [A,B,C,D] gives [B,C,A,D].
C9_ReorderSplice ==
    (op.name = "reorderTasks"
        /\ op.a \in 0..(Len(op.src) - 1) /\ op.b \in 0..(Len(op.src) - 1)) =>
            /\ Len(tasks) = Len(op.src)
            /\ tasks[op.b + 1] = op.src[op.a + 1]
            /\ WithoutIndex(tasks, op.b + 1) = WithoutIndex(op.src, op.a + 1)
            /\ (Len(op.src) = 4 /\ op.a = 0 /\ op.b = 2) =>
                   tasks = << op.src[2], op.src[3], op.src[1], op.src[4] >>

C9_MovedFirstToThird ==
    /\ op.name = "reorderTasks"
    /\ Len(op.src) = 4
    /\ op.a = 0
    /\ op.b = 2
    /\ tasks[3] = op.src[1]

\* C10: every reorder call made by a drag release passes a fromIndex and a
\* toIndex within [0, length-1] of the task list the call operates on.
C10_DragIndicesInRange ==
    op.name = "reorderTasks" =>
        /\ 0 <= op.a /\ op.a <= Len(op.src) - 1
        /\ 0 <= op.b /\ op.b <= Len(op.src) - 1

C10_DraggedUnderFilter ==
    /\ op.name = "reorderTasks"
    /\ activeFilter = "completed"
    /\ Len(op.src) = 3
    /\ op.b = 1

\* the indices of ts whose task is not completed, and the k-th of them
Incomplete(ts) == { i \in 1..Len(ts) : ~ts[i].completed }
KthOf(S, k) == CHOOSE i \in S : Cardinality({ j \in S : j <= i }) = k

\* C11: clearCompleted leaves exactly the tasks whose completed flag was
\* false, each unmodified and in the original relative order, and removes
\* every task whose completed flag was true.
C11_ClearCompletedKeepsIncomplete ==
    [][op'.name = "clearCompleted" =>
            /\ Len(tasks') = Cardinality(Incomplete(tasks))
            /\ \A k \in 1..Len(tasks') : tasks'[k] = tasks[KthOf(Incomplete(tasks), k)]
            /\ \A k \in 1..Len(tasks') : ~tasks'[k].completed]_vars

C11_ClearedAroundIncomplete ==
    /\ op.name = "clearCompleted"
    /\ Len(op.src) = 3
    /\ op.src[1].completed /\ ~op.src[2].completed /\ op.src[3].completed
    /\ tasks = << op.src[2] >>

\* the subsequence of ts at the indices S, in the order of ts
Picked(ts, S) == [k \in 1..Cardinality(S) |-> ts[KthOf(S, k)]]

Complete(ts) == { i \in 1..Len(ts) : ts[i].completed }

\* C12: with an empty query the view is the subsequence of incomplete tasks
\* under 'active', the subsequence of completed tasks under 'completed' and
\* the whole list under 'all', in store order; choosing a filter or a query,
\* which recomputes the view, leaves the task list as it is.
C12_StatusViews ==
    /\ [](searchQuery = <<>> =>
            /\ activeFilter = "active" => Displayed = Picked(tasks, Incomplete(tasks))
            /\ activeFilter = "completed" => Displayed = Picked(tasks, Complete(tasks))
            /\ activeFilter = "all" => Displayed = tasks)
    /\ [][op'.name \in {"setActiveFilter", "setSearchQuery"} => tasks' = tasks]_vars

C12_ActiveViewSkipsCompleted ==
    /\ op.name = "setActiveFilter"
    /\ activeFilter = "active"
    /\ searchQuery = <<>>
    /\ Len(tasks) = 3
    /\ tasks[1].completed /\ ~tasks[2].completed /\ ~tasks[3].completed
    /\ Displayed = << tasks[2], tasks[3] >>

\* text contains query when letter case is ignored
ContainsIgnoringCase(text, query) ==
    \E k \in 0..(Len(text) - Len(query)) :
        \A i \in 1..Len(query) : LowerChar(text[k + i]) = LowerChar(query[i])

\* C13: under 'active' and 'completed' the view is the same for every query,
\* and under 'all' with a non-empty query it is exactly the tasks whose text
\* contains the query, letter case ignored.
C13_QueryOnlyUnderAll ==
    /\ activeFilter \in {"active", "completed"} =>
          \A query \in Queries :
              filteredTasks(tasks, activeFilter, query) = filteredTasks(tasks, activeFilter, <<>>)
    /\ (activeFilter = "all" /\ searchQuery # <<>>) =>
          Displayed = Picked(tasks, { i \in 1..Len(tasks) :
                                        ContainsIgnoringCase(tasks[i].text, searchQuery) })

C13_QueryIgnoredUnderActive ==
    /\ op.name = "setSearchQuery"
    /\ activeFilter = "active"
    /\ searchQuery = <<"b">>
    /\ \E i \in 1..Len(Displayed) : ~ContainsIgnoringCase(Displayed[i].text, searchQuery)
    /\ \E i \in 1..Len(tasks) :
          ContainsIgnoringCase(tasks[i].text, searchQuery) /\ tasks[i].completed

\* C14: the active count is the number of incomplete tasks and the completed
\* count the number of completed ones, so that they add up to the total; the
\* high-priority count is the number of incomplete tasks of priority high;
\* the overdue count is the number of incomplete tasks with a due date
\* strictly before now; a completed task is in neither of the last two.
C14_Counts ==
    /\ activeTasksCount(tasks) = Cardinality(Incomplete(tasks))
    /\ completedTasksCount(tasks) = Cardinality(Complete(tasks))
    /\ activeTasksCount(tasks) + completedTasksCount(tasks) = Len(tasks)
    /\ highPriorityCount(tasks) =
          Cardinality({ i \in Incomplete(tasks) : tasks[i].priority = "high" })
    /\ overdueCount(tasks, now) =
          Cardinality({ i \in Incomplete(tasks) :
                          tasks[i].dueDate # NoDate /\ tasks[i].dueDate < now })

C14_CompletedOverdueNotCounted ==
    /\ op.name = "toggleTask"
    /\ \E i \in Complete(tasks) :
          /\ tasks[i].dueDate # NoDate /\ tasks[i].dueDate < now
          /\ tasks[i].priority = "high"
    /\ \E i \in Incomplete(tasks) : tasks[i].dueDate # NoDate /\ tasks[i].dueDate < now
    /\ overdueCount(tasks, now) = 1
    /\ highPriorityCount(tasks) = 0

\* p is a nearest integer to 100 * c / t
IsNearestPercent(p, c, t) ==
    /\ 2 * (p * t - 100 * c) <= t
    /\ 2 * (100 * c - p * t) <= t

\* C15: completionPercentage is 0 on the empty store and otherwise
\* completed / total * 100 rounded to the nearest integer; it is an integer
\* in 0..100, equal to 100 exactly when the store is not empty and every
\* task is completed.
C15_PercentExact ==
    \A p \in completionPercentages(tasks) :
        /\ Len(tasks) = 0 => p = 0
        /\ Len(tasks) > 0 => IsNearestPercent(p, Cardinality(Complete(tasks)), Len(tasks))
        /\ p \in 0..100
        /\ p = 100 <=> (Len(tasks) > 0 /\ Complete(tasks) = 1..Len(tasks))

\* C15, amended: completionPercentage is 0 on the empty store and otherwise
\* completed / total * 100 rounded to the nearest integer; it is an integer
\* in 0..100, equal to 100 when the store is not empty and every task is
\* completed, and, in a store of fewer than 200 tasks, in that case only.
C15_PercentRounded ==
    \A p \in completionPercentages(tasks) :
        /\ Len(tasks) = 0 => p = 0
        /\ Len(tasks) > 0 => IsNearestPercent(p, Cardinality(Complete(tasks)), Len(tasks))
        /\ p \in 0..100
        /\ (Len(tasks) > 0 /\ Complete(tasks) = 1..Len(tasks)) => p = 100
        /\ (p = 100 /\ Len(tasks) < 200) => Complete(tasks) = 1..Len(tasks)

C15_AllButOneOfManyCompleted ==
    /\ op.name = "toggleTask"
    /\ Len(tasks) = PercentLen
    /\ Cardinality(Complete(tasks)) = PercentLen - 1
    /\ completionPercentages(tasks) = { 100 }

\* C16: a task list written by the save effect and read back by load, in a
\* reopened app, is the list that was in memory: same length, same order,
\* every field equal, createdAt and dueDate timestamps again and a null
\* dueDate null again.
C16_RoundTrip ==
    (op.name = "loadData" /\ op.a = 0 /\ op.b = 1) =>
        /\ tasks = op.src
        /\ TasksWithDates(Stringify(op.src)) = op.src
        /\ \A i \in 1..Len(tasks) :
              /\ tasks[i].createdAt \in 0..MaxTime
              /\ tasks[i].dueDate \in Dates \cup { NoDate }

C16_ReloadedWithAndWithoutDueDate ==
    /\ op.name = "loadData" /\ op.a = 0 /\ op.b = 1
    /\ Len(op.src) >= 2
    /\ \E i \in 1..Len(tasks) : tasks[i].dueDate # NoDate /\ tasks[i].completed
    /\ \E i \in 1..Len(tasks) : tasks[i].dueDate = NoDate

\* every storage operation issued up to and because of clearAllTasks has
\* settled, and no handler has run since
ClearAllSettled == op.name = "settle" /\ op.b = 1 /\ pending = <<>>

\* C17: once the storage operations issued up to and because of clearAll
\* (earlier writes in flight, the remove, the write of the emptied list) have
\* all settled, in whatever order, a load yields the empty task list.
C17_LoadAfterClearAllIsEmpty ==
    ClearAllSettled => LoadedTasks(LoadFails(FALSE, storage.tasks), storage.tasks, <<>>) = <<>>

\* C18: once clearAll and the storage operations it causes have settled, the
\* task list in memory is empty and the '@tasks' key is absent from the
\* storage, not set to a serialized empty array.
C18_ClearAllRemovesRecord ==
    ClearAllSettled => (tasks = <<>> /\ storage.tasks = Absent)

\* C19: when the storage holds neither the tasks entry nor the theme entry,
\* load finishes with the empty task list, the dark theme and isLoading
\* false.
C19_LoadOfNothing ==
    [][(op'.name = "loadData" /\ storage.tasks = Absent /\ storage.theme = Absent) =>
            /\ tasks' = <<>>
            /\ isDarkMode' = TRUE
            /\ isLoading' = FALSE]_vars

C19_LoadedNothing ==
    /\ op.name = "loadData"
    /\ op.a = 0
    /\ storage.tasks = Absent /\ storage.theme = Absent
    /\ tasks = <<>> /\ isDarkMode /\ ~isLoading

\* C20: when the stored tasks text does not parse or a read fails, load
\* leaves the task list empty and ends with isLoading false; whatever the
\* outcome of load, the store becomes ready.
C20_LoadRecovers ==
    /\ [][(op'.name = "loadData" /\ (op'.a = 1 \/ storage.tasks = Malformed)) =>
              /\ tasks' = <<>>
              /\ isLoading' = FALSE]_vars
    /\ (isLoading ~> ~isLoading)

C20_LoadedMalformed ==
    /\ op.name = "loadData"
    /\ op.a = 0
    /\ storage.tasks = Malformed
    /\ storage.theme # Absent
    /\ tasks = <<>> /\ ~isLoading

\* the theme a stored theme value stands for, dark when there is none
ThemeOf(stored) == IF stored = Absent THEN TRUE ELSE stored.json = "dark"

\* C21: the theme that load restores, and the theme value its render writes
\* back to the storage, are those of the stored theme value alone, whether
\* the stored tasks record is absent, valid or malformed.
C21_ThemeIndependentOfTasks ==
    [][(op'.name = "loadData" /\ op'.a = 0) =>
            /\ isDarkMode' = ThemeOf(storage.theme)
            /\ \A k \in 1..Len(pending') :
                  pending'[k].key = "@theme" =>
                      pending'[k].value.json = ThemeString(ThemeOf(storage.theme))]_vars

\* no operation on the tasks entry is in flight in ops
NoTasksOperation(ops) == \A k \in 1..Len(ops) : ops[k].key # "@tasks"

\* C22: a rejected storage operation (the write after a mutation, the remove
\* of clearAll) leaves the task list in memory as it is: the list is still
\* the result of the mutation that issued the operation.
C22_FailedWriteKeepsList ==
    [][(op'.name = "settle" /\ op'.text = <<"rejected">>) =>
            /\ tasks' = tasks
            /\ (op'.src[1].kind = "setItem" /\ op'.src[1].key = "@tasks"
                    /\ NoTasksOperation(pending')) =>
                   tasks' = TasksWithDates(op'.src[1].value)
            /\ op'.src[1].kind = "removeItem" => tasks' = <<>>]_vars

C22_RemoveRejected ==
    /\ op.name = "settle"
    /\ op.text = <<"rejected">>
    /\ op.src[1].kind = "removeItem"
    /\ storage.tasks.kind = "text"
    /\ Len(storage.tasks.json) >= 2
    /\ storage.tasks # Stringify(StoredForDrag)
    /\ tasks = <<>>

\* C24: whatever was rejected before, an accepted write, the latest issued
\* for the tasks entry, leaves in the storage the full task list of the
\* moment, the effect of a mutation whose own write was rejected included.
C24_NextWriteCarriesAll ==
    [][(op'.name = "settle" /\ op'.text = <<>>
            /\ op'.src[1].kind = "setItem" /\ op'.src[1].key = "@tasks"
            /\ NoTasksOperation(pending')) =>
                /\ storage'.tasks.kind = "text"
                /\ TasksWithDates(storage'.tasks) = tasks']_vars

C24_AcceptedAfterRejected ==
    /\ op.name = "settle"
    /\ op.text = <<>>
    /\ op.a = 1
    /\ op.src[1].key = "@tasks"
    /\ pending = <<>>
    /\ Len(tasks) = Len(StoredForDrag)
    /\ Cardinality({ i \in 1..Len(tasks) :
                       tasks[i].completed # StoredForDrag[i].completed }) = 2
    /\ TasksWithDates(storage.tasks) = tasks

\* the tasks entry of the storage deserializes to the list in memory
Synced == storage.tasks.kind = "text" /\ TasksWithDates(storage.tasks) = tasks

C25_DeleteExactlyOne ==
    [][/\ (op'.name = "confirmDelete" /\ taskToDelete \in Ids(tasks)) =>
              \E k \in 1..Len(tasks) :
                  tasks[k].id = taskToDelete /\ tasks' = WithoutIndex(tasks, k)
       /\ (op'.name = "confirmDelete" /\ taskToDelete \notin Ids(tasks)) => tasks' = tasks
       /\ op'.name = "cancelDelete" => tasks' = tasks]_vars

\* how many times task t occurs in ts
Occurrences(ts, t) == Cardinality({ i \in 1..Len(ts) : ts[i] = t })

\* C26: a reorder caused by a drag neither creates nor destroys tasks: the
\* list after it holds the tasks of the list before it, each as many times,
\* whatever was cleared or changed since the dragged item was first rendered.
C26_DragKeepsTasks ==
    [][op'.name = "reorderTasks" =>
          /\ Len(tasks') = Len(tasks)
          /\ \A i \in 1..Len(tasks) :
                 Occurrences(tasks', tasks[i]) = Occurrences(tasks, tasks[i])]_vars

\* C27: when the drag of an item causes a reorder, the task moved in the
\* store is the task of the dragged item, under every filter and query.
C27_DraggedTaskMoves ==
    (op.name = "reorderTasks" /\ op.text # <<>>) =>
        /\ op.src[op.a + 1].id = op.text[1]
        /\ tasks[op.b + 1].id = op.text[1]

\* C28: no step that leaves isLoading true issues a storage operation, so
\* nothing is written under '@tasks' or '@theme' while loading; the load that
\* reads a non-empty stored list without failure issues, as its first
\* operation on '@tasks', the write of the list it loaded.
C28_NoWriteBeforeLoad ==
    /\ [][isLoading' => Len(pending') <= Len(pending)]_vars
    /\ [](isLoading => pending = <<>>)
    /\ [][(op'.name = "loadData" /\ op'.a = 0 /\ storage.tasks.kind = "text"
              /\ storage.tasks.json # <<>>) =>
             /\ tasks' = TasksWithDates(storage.tasks)
             /\ \E k \in 1..Len(pending') :
                    /\ pending'[k] = SetItem("@tasks", Stringify(TasksWithDates(storage.tasks)))
                    /\ \A j \in 1..(k - 1) : pending'[j].key # "@tasks"]_vars

C28_LoadedListWrittenFirst ==
    /\ op.name = "loadData"
    /\ op.a = 0
    /\ op.b = 1
    /\ ~isLoading
    /\ tasks # <<>>
    /\ storage.tasks = Stringify(tasks)
    /\ pending # <<>>
    /\ pending[1] = SetItem("@tasks", Stringify(tasks))
====
